---- MODULE Spec2Model ----
(***************************************************************************)
(* ChEMBL -> Weaviate importer (chembl_importer.py) and query utility      *)
(* (chembl_query.py).                                                       *)
(*                                                                         *)
(* Text is modelled as a sequence of tokens (strings); a single blank is   *)
(* the token " ", and the empty string contributes no token, so two texts  *)
(* are equal exactly when their token sequences are equal.                 *)
(* A Python dict is a function whose DOMAIN is the set of keys present.    *)
(***************************************************************************)
EXTENDS Integers, Sequences, FiniteSets, TLC

VARIABLES
    \* ---- importer (chembl_importer.py) ----
    store,            \* the ChEMBLCompound collection: a set of stored objects
    collectionExists, \* whether the collection exists in Weaviate
    pc,               \* position of the import run
    runs,             \* number of import runs started
    batch_size,       \* self.batch_size
    compounds,        \* the fetched sequence of the current run
    i,                \* loop offset of `for i in range(0, len(compounds), batch_size)`
    batch,            \* the slice handed to process_batch
    j,                \* position of the next compound in the batch
    batches,          \* history: the slices handed to process_batch in this run
    written,          \* history: fetch indices whose add_object succeeded in this run
    failed,           \* history: fetch indices whose add_object raised in this run
    error,            \* the exception import_data re-raised, or "none"
    reported,         \* the count of the final "Successfully imported" log line, -1 if none
    collection,       \* the local `collection` of import_data: "unbound" or the collection's name
    writes,           \* history: per chembl_id, the number of successful writes over all runs
    \* ---- query utility (chembl_query.py) ----
    call,             \* the last query call: its arguments, the store queries it issued, its outcome
    \* ---- description builder applied to one input ----
    descIn, descOut, descDone

vars == <<store, collectionExists, pc, runs, batch_size, compounds, i, batch, j,
          batches, written, failed, error, reported, collection, writes,
          call, descIn, descOut, descDone>>

importVars == <<store, collectionExists, pc, runs, batch_size, compounds, i, batch, j,
                batches, written, failed, error, reported, collection, writes>>

descVars == <<descIn, descOut, descDone>>

(***************************************************************************)
(* Bounds                                                                  *)
(***************************************************************************)
MaxFetch == 3     \* largest `limit` of an import run
MaxBatch == 2     \* largest batch_size
MaxRuns  == 2     \* import runs in one behaviour
MaxLimit == 2     \* largest `limit` of a query
MaxPhaseArg == 5  \* largest min_phase of a query

ChemblIds == {"CHEMBL25", "CHEMBL99", "CHEMBL1"}

(***************************************************************************)
(* Python helpers                                                          *)
(***************************************************************************)
\* dict.get(key, default)
Get(d, key, default) == IF key \in DOMAIN d THEN d[key] ELSE default

Min(a, b) == IF a <= b THEN a ELSE b

\* str.strip() on a token sequence: leading and trailing blanks go
RECURSIVE StripRight(_)
StripRight(s) ==
    IF s = <<>> THEN s
    ELSE IF s[Len(s)] = " " THEN StripRight(SubSeq(s, 1, Len(s) - 1))
    ELSE s

RECURSIVE StripLeft(_)
StripLeft(s) ==
    IF s = <<>> THEN s
    ELSE IF s[1] = " " THEN StripLeft(Tail(s))
    ELSE s

Strip(s) == StripLeft(StripRight(s))

\* an f-string: the pieces in order, empty pieces leaving no trace
Text(pieces) == SelectSeq(pieces, LAMBDA t : t # "")

(***************************************************************************)
(* create_compound_description                                             *)
(***************************************************************************)
phase_desc ==
    [p \in 0..4 |->
        CASE p = 0 -> "not tested in clinical trials"
          [] p = 1 -> "in Phase I clinical trials"
          [] p = 2 -> "in Phase II clinical trials"
          [] p = 3 -> "in Phase III clinical trials"
          [] p = 4 -> "approved for clinical use"]

\* phase_desc.get(max_phase, "")
PhasePhrase(max_phase) ==
    IF max_phase \in DOMAIN phase_desc THEN phase_desc[max_phase] ELSE ""

\* `if compound.get('max_phase'):` -- absent (None) and 0 are both falsy
PhaseIsTruthy(compound) ==
    "max_phase" \in DOMAIN compound /\ compound.max_phase # 0

\* `if compound.get('pref_name'):` -- absent (None) and "" are both falsy
NameIsTruthy(compound) ==
    "pref_name" \in DOMAIN compound /\ compound.pref_name # ""

create_compound_description(compound) ==
    LET d1 == Text(<<"This is a", " ", Get(compound, "molecule_type", "compound"), " ">>)
        d2 == IF NameIsTruthy(compound)
              THEN d1 \o Text(<<"named", " ", compound.pref_name, " ">>)
              ELSE d1
        d3 == d2 \o Text(<<"with ChEMBL ID", " ", compound.molecule_chembl_id, ".", " ">>)
        d4 == IF PhaseIsTruthy(compound)
              THEN d3 \o Text(<<PhasePhrase(compound.max_phase)>>)
              ELSE d3
    IN  Strip(d4)

(***************************************************************************)
(* Inputs of the description builder: every combination of present and     *)
(* absent optional fields                                                  *)
(***************************************************************************)
Absent == "<absent>"

NameChoices  == {Absent, "", "Aspirin"}
TypeChoices  == {Absent, "Small molecule"}
PhaseChoices == {-1, 0, 1, 2, 3, 4, 5}     \* -1 stands for "no max_phase key"

\* the dict with the chosen keys
MkCompound(id, name, type, phase) ==
    LET keys == {"molecule_chembl_id"}
                \cup (IF name = Absent THEN {} ELSE {"pref_name"})
                \cup (IF type = Absent THEN {} ELSE {"molecule_type"})
                \cup (IF phase = -1 THEN {} ELSE {"max_phase"})
    IN  [k \in keys |->
            CASE k = "molecule_chembl_id" -> id
              [] k = "pref_name" -> name
              [] k = "molecule_type" -> type
              [] k = "max_phase" -> phase]

DescInputs ==
    { MkCompound(id, n, t, p) :
        id \in ChemblIds, n \in NameChoices, t \in TypeChoices, p \in PhaseChoices }

(***************************************************************************)
(* Collaborators of process_batch: the embedding model, the id hash, the   *)
(* collection's write                                                      *)
(***************************************************************************)
RECURSIVE SumLen(_)
SumLen(s) == IF s = <<>> THEN 0 ELSE Len(s[1]) + SumLen(Tail(s))

\* self.model.encode(text).tolist(): a deterministic function of the text alone.
\* The stand-in is one-dimensional: the number of characters of the text.
Encode(text) == <<SumLen(text)>>

\* generate_uuid5(name): a name-based hash, the same for the same name
Uuid5(name) == <<"uuid5", name>>

\* the uuid= argument of batch.add_object
ObjectUuidFromDescription(compound) == <<"uuid5", create_compound_description(compound)>>

ObjectUuid(compound) == Uuid5(compound["molecule_chembl_id"])

\* the properties= argument of batch.add_object
data_object(compound, description) ==
    [molecule_chembl_id |-> compound["molecule_chembl_id"],
     pref_name          |-> Get(compound, "pref_name", ""),
     molecule_type      |-> Get(compound, "molecule_type", ""),
     max_phase          |-> Get(compound, "max_phase", 0),
     therapeutic_flag   |-> Get(compound, "therapeutic_flag", FALSE),
     structure_type     |-> Get(compound, "structure_type", ""),
     description        |-> description]

\* what one iteration of process_batch's loop hands to batch.add_object
IndexedObject(compound) ==
    LET description == create_compound_description(compound)
    IN  [uuid       |-> ObjectUuid(compound),
         properties |-> data_object(compound, description),
         vector     |-> Encode(description)]

\* a write that keeps the object already stored under the uuid
AddObjectKeepingOld(objs, obj) ==
    IF \E o \in objs : o.uuid = obj.uuid THEN objs ELSE objs \cup {obj}

\* batch.add_object on the collection: the object stored under the uuid is replaced
AddObject(objs, obj) == {o \in objs : o.uuid # obj.uuid} \cup {obj}

(***************************************************************************)
(* The record source: molecule.filter(max_phase__gte=0)                    *)
(*                            .order_by('-max_phase')[:limit]              *)
(***************************************************************************)
SourceVariants ==
    { <<"Aspirin", "Small molecule", 4>>,
      <<Absent, "Small molecule", 0>>,
      <<Absent, Absent, -1>> }

SourceRecords ==
    { MkCompound(id, v[1], v[2], v[3]) : id \in ChemblIds, v \in SourceVariants }

PhaseKey(compound) == Get(compound, "max_phase", -1)

\* chembl_id is unique in the source, and the source orders by descending max_phase
IsFetchResult(cs) ==
    /\ \A a, b \in 1..Len(cs) : a # b => cs[a].molecule_chembl_id # cs[b].molecule_chembl_id
    /\ \A a, b \in 1..Len(cs) : a < b => PhaseKey(cs[a]) >= PhaseKey(cs[b])

FetchResults(limit) ==
    { cs \in UNION { [1..n -> SourceRecords] : n \in 0..limit } : IsFetchResult(cs) }

(***************************************************************************)
(* The states outside the specification at hand                            *)
(***************************************************************************)
NoCall == [op |-> "none"]

ImportIdle ==
    /\ collectionExists = FALSE
    /\ pc = "idle"
    /\ runs = 0
    /\ batch_size = 1
    /\ compounds = <<>>
    /\ i = 0
    /\ batch = <<>>
    /\ j = 1
    /\ batches = <<>>
    /\ written = <<>>
    /\ failed = {}
    /\ error = "none"
    /\ reported = -1
    /\ collection = "unbound"
    /\ writes = [id \in ChemblIds |-> 0]

DescIdle ==
    /\ descIn = MkCompound("CHEMBL25", Absent, Absent, -1)
    /\ descOut = <<>>
    /\ descDone = FALSE

(***************************************************************************)
(* import_data                                                             *)
(***************************************************************************)
\* the state of a fresh run: main() builds the importer and calls import_data
BeginRun(bs) ==
    /\ pc \in {"idle", "done", "aborted"}
    /\ runs < MaxRuns
    /\ runs' = runs + 1
    /\ batch_size' = bs
    /\ compounds' = <<>>
    /\ i' = 0
    /\ batch' = <<>>
    /\ j' = 1
    /\ batches' = <<>>
    /\ written' = <<>>
    /\ failed' = {}
    /\ reported' = -1
    /\ UNCHANGED <<store, writes, call, descVars>>

\* collection = self.client.collections.get("ChEMBLCompound")
ImportGetCollection ==
    /\ collectionExists
    /\ \E bs \in 1..MaxBatch : BeginRun(bs)
    /\ collection' = "ChEMBLCompound"
    /\ pc' = "fetch"
    /\ error' = "none"
    /\ UNCHANGED collectionExists

\* except: self.create_schema(); collection = self.client.collections.get(...)
ImportCreateSchema ==
    /\ ~collectionExists
    /\ \E bs \in 1..MaxBatch : BeginRun(bs)
    /\ collectionExists' = TRUE
    /\ collection' = "ChEMBLCompound"
    /\ pc' = "fetch"
    /\ error' = "none"

\* create_schema logs and re-raises; import_data logs and re-raises
ImportCreateSchemaFails ==
    /\ ~collectionExists
    /\ \E bs \in 1..MaxBatch : BeginRun(bs)
    /\ collection' = "unbound"
    /\ pc' = "aborted"
    /\ error' = "schema"
    /\ UNCHANGED collectionExists

\* compounds = self.fetch_chembl_data(limit)
FetchData ==
    /\ pc = "fetch"
    /\ \E limit \in 0..MaxFetch : \E cs \in FetchResults(limit) : compounds' = cs
    /\ pc' = "loop"
    /\ i' = 0
    /\ UNCHANGED <<store, collectionExists, runs, batch_size, batch, j, batches, written,
                   failed, error, reported, collection, writes, call, descVars>>

\* fetch_chembl_data logs and re-raises; import_data logs and re-raises
FetchDataFails ==
    /\ pc = "fetch"
    /\ pc' = "aborted"
    /\ error' = "fetch"
    /\ UNCHANGED <<store, collectionExists, runs, batch_size, compounds, i, batch, j,
                   batches, written, failed, reported, collection, writes, call, descVars>>

\* batch = compounds[i:i + self.batch_size]; self.process_batch(batch, collection)
BatchStart ==
    /\ pc = "loop"
    /\ i < Len(compounds)
    /\ batch' = SubSeq(compounds, i + 1, Min(i + batch_size, Len(compounds)))
    /\ batches' = Append(batches, batch')
    /\ j' = 1
    /\ pc' = "batch"
    /\ UNCHANGED <<store, collectionExists, runs, batch_size, compounds, i, written,
                   failed, error, reported, collection, writes, call, descVars>>

\* one iteration of process_batch's loop: description, embedding, add_object
ProcessCompound ==
    /\ pc = "batch"
    /\ j <= Len(batch)
    /\ store' = AddObject(store, IndexedObject(batch[j]))
    /\ written' = Append(written, i + j)
    /\ writes' = [writes EXCEPT ![batch[j].molecule_chembl_id] = @ + 1]
    /\ j' = j + 1
    /\ UNCHANGED <<collectionExists, pc, runs, batch_size, compounds, i, batch, batches,
                   failed, error, reported, collection, call, descVars>>

\* batch.add_object raises: `except Exception` logs the error, the loop goes on
ProcessCompoundWriteFails ==
    /\ pc = "batch"
    /\ j <= Len(batch)
    /\ failed' = failed \cup {i + j}
    /\ j' = j + 1
    /\ UNCHANGED <<store, collectionExists, pc, runs, batch_size, compounds, i, batch,
                   batches, written, error, reported, collection, writes, call, descVars>>

\* self.model.encode raises: the call is outside the try, so the exception leaves
\* process_batch and the loop; import_data logs and re-raises
ProcessCompoundEncodeFails ==
    /\ pc = "batch"
    /\ j <= Len(batch)
    /\ pc' = "aborted"
    /\ error' = "encode"
    /\ UNCHANGED <<store, collectionExists, runs, batch_size, compounds, i, batch, j,
                   batches, written, failed, reported, collection, writes, call, descVars>>

\* process_batch returns; time.sleep(0.1); the range advances by batch_size
BatchEnd ==
    /\ pc = "batch"
    /\ j > Len(batch)
    /\ i' = i + batch_size
    /\ pc' = "loop"
    /\ UNCHANGED <<store, collectionExists, runs, batch_size, compounds, batch, j, batches,
                   written, failed, error, reported, collection, writes, call, descVars>>

\* the count of the final log line
ReportedCount == Len(compounds)

\* logger.info(f"Successfully imported {len(compounds)} compounds into Weaviate")
ImportFinish ==
    /\ pc = "loop"
    /\ i >= Len(compounds)
    /\ reported' = ReportedCount
    /\ pc' = "done"
    /\ UNCHANGED <<store, collectionExists, runs, batch_size, compounds, i, batch, j,
                   batches, written, failed, error, collection, writes, call, descVars>>

(***************************************************************************)
(* The collection's read side, as chembl_query.py uses it                  *)
(***************************************************************************)
NoFilter == [operator |-> "none"]

\* with_where(filter) on one object
WhereHolds(obj, where) ==
    CASE where.operator = "none" -> TRUE
      [] where.operator = "GreaterThanEqual" -> obj.properties[where.path] >= where.value
      [] where.operator = "GreaterThan" -> obj.properties[where.path] > where.value
      [] where.operator = "Equal" -> obj.properties[where.path] = where.value

Abs(x) == IF x < 0 THEN -x ELSE x

\* metadata.distance of a stored vector to the query vector
Distance(v, w) == Abs(v[1] - w[1])

IsInjective(s) == \A a, b \in DOMAIN s : a # b => s[a] # s[b]

Range(s) == { s[k] : k \in DOMAIN s }

\* query.get().with_where(where).with_limit(limit).objects: `limit` of the
\* matching objects, in an order the store chooses. limit = -1: no with_limit.
QueryGet(objs, where, limit) ==
    LET matching == { o \in objs : WhereHolds(o, where) }
        n == IF limit = -1 THEN Cardinality(matching) ELSE Min(limit, Cardinality(matching))
    IN  { s \in [1..n -> matching] : IsInjective(s) }

\* query.near_vector(near_vector=vec, limit=limit) [.with_where(where)] .objects:
\* the `limit` matching objects nearest to vec, nearest first; ties in the
\* store's order. Each result carries metadata.distance.
QueryNearVector(objs, where, vec, limit) ==
    LET matching == { o \in objs : WhereHolds(o, where) }
        n == Min(limit, Cardinality(matching))
        nearest == { s \in [1..n -> matching] :
                       /\ IsInjective(s)
                       /\ \A a, b \in 1..n : a < b =>
                            Distance(s[a].vector, vec) <= Distance(s[b].vector, vec)
                       /\ \A o \in matching \ Range(s) : \A a \in 1..n :
                            Distance(s[a].vector, vec) <= Distance(o.vector, vec) }
    IN  { [k \in 1..n |-> [properties |-> s[k].properties,
                            distance   |-> Distance(s[k].vector, vec)]] : s \in nearest }

\* "certainty": 1 - obj.metadata.distance
Certainty(distance) == 1 - distance

\* {**obj.properties, "certainty": 1 - obj.metadata.distance}
Friendly(r) == [certainty |-> Certainty(r.distance)] @@ r.properties

FriendlyList(rs) == [k \in 1..Len(rs) |-> Friendly(rs[k])]

\* lst[:n]
Take(s, n) == SubSeq(s, 1, Min(n, Len(s)))

NoResult == <<"no result">>

\* what the log of a store query keeps of its answer: the chembl_ids, in order
ReturnedIds(rs) == [k \in 1..Len(rs) |-> rs[k].properties["molecule_chembl_id"]]

(***************************************************************************)
(* semantic_search                                                         *)
(***************************************************************************)
\* a search that filters the `limit` nearest objects after the query
SemanticSearchFilteringAfter(objs, query, limit, additional_filters) ==
    { [queries |-> << [kind |-> "near_vector", limit |-> limit, where |-> NoFilter,
                       returned |-> ReturnedIds(rs)] >>,
       outcome |-> "returned", error |-> "none",
       result  |-> FriendlyList(SelectSeq(rs,
                      LAMBDA r : WhereHolds(r, additional_filters)))] :
      rs \in QueryNearVector(objs, NoFilter, Encode(query), limit) }

\* the outcomes of semantic_search(query, limit, additional_filters)
SemanticSearch(objs, query, limit, additional_filters) ==
    LET query_embedding == Encode(query)
        \* `if additional_filters:` -- None is falsy
        where == IF additional_filters # NoFilter THEN additional_filters ELSE NoFilter
    IN  { [queries |-> << [kind |-> "near_vector", limit |-> limit, where |-> where,
                           returned |-> ReturnedIds(rs)] >>,
           outcome |-> "returned", error |-> "none",
           result  |-> FriendlyList(rs)] :
          rs \in QueryNearVector(objs, where, query_embedding, limit) }

(***************************************************************************)
(* filter_by_phase                                                         *)
(***************************************************************************)
PhaseFilterStrict(min_phase) ==
    [path |-> "max_phase", operator |-> "GreaterThan", value |-> min_phase]

\* where_filter of filter_by_phase
PhaseFilter(min_phase) ==
    [path |-> "max_phase", operator |-> "GreaterThanEqual", value |-> min_phase]

\* the outcomes of filter_by_phase(min_phase, limit)
FilterByPhase(objs, min_phase, limit) ==
    { [queries |-> << [kind |-> "get", limit |-> limit, where |-> PhaseFilter(min_phase),
                       returned |-> ReturnedIds(rs)] >>,
       outcome |-> "returned", error |-> "none",
       result  |-> [k \in 1..Len(rs) |-> rs[k].properties]] :
      rs \in QueryGet(objs, PhaseFilter(min_phase), limit) }

(***************************************************************************)
(* get_similar_compounds                                                   *)
(***************************************************************************)
\* where_filter of the reference lookup
ReferenceFilter(chembl_id) ==
    [path |-> "molecule_chembl_id", operator |-> "Equal", value |-> chembl_id]

\* a result list that keeps the reference compound
SimilarResultsKeepingReference(similar, chembl_id, limit) ==
    Take(FriendlyList(similar), limit)

\* [{...} for obj in similar if obj.properties["molecule_chembl_id"] != chembl_id][:limit]
SimilarResults(similar, chembl_id, limit) ==
    Take(FriendlyList(SelectSeq(similar,
             LAMBDA r : r.properties["molecule_chembl_id"] # chembl_id)), limit)

\* the reference lookup came back empty and nothing checks for it:
\* reference[0] raises IndexError
ReferenceMissingUnchecked(lookup) ==
    [queries |-> <<lookup>>, outcome |-> "raised", error |-> "IndexError",
     result |-> NoResult]

\* `if not reference: raise ValueError(...)`; the except clause logs and re-raises
ReferenceMissing(lookup) ==
    [queries |-> <<lookup>>, outcome |-> "raised", error |-> "ValueError",
     result |-> NoResult]

\* the outcomes of get_similar_compounds(chembl_id, limit)
GetSimilarCompounds(objs, chembl_id, limit) ==
    LET references == QueryGet(objs, ReferenceFilter(chembl_id), -1)
        Lookup(reference) == [kind |-> "get", limit |-> -1,
                              where |-> ReferenceFilter(chembl_id),
                              returned |-> ReturnedIds(reference)]
    IN  UNION { IF reference = <<>>
                THEN { ReferenceMissing(Lookup(reference)) }
                ELSE { [queries |-> << Lookup(reference),
                                       [kind |-> "near_vector", limit |-> limit + 1,
                                        where |-> NoFilter, returned |-> ReturnedIds(similar)] >>,
                        outcome |-> "returned", error |-> "none",
                        result  |-> SimilarResults(similar, chembl_id, limit)] :
                       similar \in QueryNearVector(objs, NoFilter, reference[1].vector,
                                                   limit + 1) } :
                reference \in references }

(***************************************************************************)
(* Calls of the query utility against a store the importer has filled      *)
(***************************************************************************)
QueryIds == ChemblIds \cup {"CHEMBL521"}

QueryVariants ==
    SourceVariants \cup { <<Absent, "Small molecule", 3>>, <<"Aspirin", Absent, 2>> }

QueryRecords ==
    { MkCompound(id, v[1], v[2], v[3]) : id \in QueryIds, v \in QueryVariants }

\* the stores an import of records with distinct ids leaves
ImportedStores ==
    { { IndexedObject(r) : r \in rs } :
        rs \in { S \in SUBSET QueryRecords :
                   \A a, b \in S : a.molecule_chembl_id = b.molecule_chembl_id => a = b } }

QueryTexts ==
    { <<"cancer treatment compounds">>,
      <<"compounds effective against breast cancer">>,
      <<"approved small molecules that relieve pain, fever and inflammation in adults">> }

FilterChoices == { NoFilter, PhaseFilter(3), ReferenceFilter("CHEMBL25") }

\* the record of a call: its arguments, the store it ran against, its outcome
CallRecord(op, args, outcome) ==
    [op |-> op, args |-> args, storeBefore |-> store] @@ outcome

CallSemanticSearch ==
    /\ call = NoCall
    /\ \E query \in QueryTexts, limit \in 0..MaxLimit, f \in FilterChoices :
         \E outcome \in SemanticSearch(store, query, limit, f) :
            call' = CallRecord("semantic_search",
                               [query |-> query, limit |-> limit, filter |-> f], outcome)
    /\ UNCHANGED <<importVars, descVars>>

CallFilterByPhase ==
    /\ call = NoCall
    /\ \E min_phase \in 0..MaxPhaseArg, limit \in 0..MaxLimit :
         \E outcome \in FilterByPhase(store, min_phase, limit) :
            call' = CallRecord("filter_by_phase",
                               [min_phase |-> min_phase, limit |-> limit], outcome)
    /\ UNCHANGED <<importVars, descVars>>

CallGetSimilarCompounds ==
    /\ call = NoCall
    /\ \E chembl_id \in QueryIds, limit \in 0..MaxLimit :
         \E outcome \in GetSimilarCompounds(store, chembl_id, limit) :
            call' = CallRecord("get_similar_compounds",
                               [chembl_id |-> chembl_id, limit |-> limit], outcome)
    /\ UNCHANGED <<importVars, descVars>>

\* the caller has consumed the result (or the exception); the utility keeps no state
CallEnds ==
    /\ call # NoCall
    /\ call' = NoCall
    /\ UNCHANGED <<importVars, descVars>>

InitQuery ==
    /\ store \in ImportedStores
    /\ ImportIdle
    /\ call = NoCall
    /\ DescIdle

NextQuery ==
    \/ CallSemanticSearch
    \/ CallFilterByPhase
    \/ CallGetSimilarCompounds
    \/ CallEnds

SpecQuery == InitQuery /\ [][NextQuery]_vars

(***************************************************************************)
(* The description builder applied to one record                           *)
(***************************************************************************)
BuildDescription ==
    /\ ~descDone
    /\ descOut' = create_compound_description(descIn)
    /\ descDone' = TRUE
    /\ UNCHANGED <<importVars, call, descIn>>

InitDesc ==
    /\ store = {}
    /\ ImportIdle
    /\ call = NoCall
    /\ descIn \in DescInputs
    /\ descOut = <<>>
    /\ descDone = FALSE

NextDesc == BuildDescription

SpecDesc == InitDesc /\ [][NextDesc]_vars

(***************************************************************************)
(* Import runs                                                             *)
(***************************************************************************)
Init ==
    /\ store = {}
    /\ ImportIdle
    /\ call = NoCall
    /\ DescIdle

Next ==
    \/ ImportGetCollection
    \/ ImportCreateSchema
    \/ ImportCreateSchemaFails
    \/ FetchData
    \/ FetchDataFails
    \/ BatchStart
    \/ ProcessCompound
    \/ ProcessCompoundWriteFails
    \/ ProcessCompoundEncodeFails
    \/ BatchEnd
    \/ ImportFinish

Spec == Init /\ [][Next]_vars

(***************************************************************************)
(* Properties of the import runs (Spec)                                    *)
(***************************************************************************)
ObjectsOf(id) == { o \in store : o.properties["molecule_chembl_id"] = id }

WrittenSet == Range(written)

\* the run fetched its records and has ended, normally or by an exception
RunEndedAfterFetch ==
    /\ runs > 0
    /\ pc \in {"done", "aborted"}
    /\ error \notin {"schema", "fetch"}

\* the fetch index of the compound whose iteration raised out of process_batch
Aborting == i + j

\* ceil(n / d)
CeilDiv(n, d) == (n + d - 1) \div d

\* C1: after any sequence of import runs the store holds at most one object per
\* chembl_id, and a chembl_id that was written (once or several times) has
\* exactly one object.
C1_OneObjectPerChemblId ==
    /\ \A o1, o2 \in store :
          o1.properties["molecule_chembl_id"] = o2.properties["molecule_chembl_id"] => o1 = o2
    /\ \A id \in ChemblIds : writes[id] >= 1 => Cardinality(ObjectsOf(id)) = 1

\* C1 witness: a chembl_id written in two runs, held once
C1_Witness ==
    \E id \in ChemblIds : writes[id] = 2 /\ Cardinality(ObjectsOf(id)) = 1

\* C2: a record's embedding or write failure is caught and the record skipped:
\* the run does not abort, and every other fetched record is written.
C2_FailureIsolation ==
    RunEndedAfterFetch =>
        /\ pc = "done"
        /\ \A k \in 1..Len(compounds) :
              k \in WrittenSet \/ k \in failed \/ (error = "encode" /\ k = Aborting)

\* C3: the count reported at the end of a run is the number of objects the run
\* wrote: n - k when k of the n fetched records failed.
C3_ReportedCountIsWritten ==
    pc = "done" =>
        /\ reported = Len(written)
        /\ reported = Len(compounds) - Cardinality(failed)

\* C7: every stored object's description is the one the description builder
\* produces from the object's own stored properties.
C7_DescriptionRegenerable ==
    \A o \in store :
        o.properties["description"] = create_compound_description(o.properties)

\* C10: the batches are the consecutive batch_size slices of the fetched
\* sequence, none is processed before the collection is bound, and the loop ends
\* after ceil(n / batch_size) batches with every fetched record handed over once.
C10_BatchPartition ==
    /\ Len(batches) > 0 => (collection = "ChEMBLCompound" /\ collectionExists)
    /\ \A b \in 1..Len(batches) :
          batches[b] = SubSeq(compounds, (b - 1) * batch_size + 1,
                              Min(b * batch_size, Len(compounds)))
    /\ RunEndedAfterFetch =>
          /\ Len(batches) = CeilDiv(Len(compounds), batch_size)
          /\ \A k \in 1..Len(compounds) :
                Cardinality({ <<b, m>> \in (1..Len(batches)) \X (1..batch_size) :
                                 /\ m <= Len(batches[b])
                                 /\ (b - 1) * batch_size + m = k
                                 /\ batches[b][m] = compounds[k] }) = 1

(***************************************************************************)
(* Properties of the query calls (SpecQuery)                               *)
(***************************************************************************)
StoredObject(id) == CHOOSE o \in store : o.properties["molecule_chembl_id"] = id

\* C4: for a chembl_id in the store, get_similar_compounds returns at most limit
\* entries, none of them the reference, and its nearest-neighbour query asks for
\* limit + 1.
C4_SimilarExcludesReference ==
    (call.op = "get_similar_compounds" /\ ObjectsOf(call.args.chembl_id) # {}) =>
        /\ call.outcome = "returned"
        /\ Len(call.result) <= call.args.limit
        /\ \A k \in 1..Len(call.result) :
              call.result[k]["molecule_chembl_id"] # call.args.chembl_id
        /\ Len(call.queries) = 2
        /\ call.queries[2].kind = "near_vector"
        /\ call.queries[2].limit = call.args.limit + 1

\* C4 witness: the over-fetch returned limit + 1 objects, the reference among
\* them, and limit >= 1 entries are returned
C4_Witness ==
    /\ call.op = "get_similar_compounds"
    /\ call.outcome = "returned"
    /\ call.args.limit >= 1
    /\ Len(call.queries[2].returned) = call.args.limit + 1
    /\ call.args.chembl_id \in Range(call.queries[2].returned)
    /\ Len(call.result) = call.args.limit

\* C5: for a chembl_id not in the store, get_similar_compounds raises the
\* not-found error, issues no nearest-neighbour query, returns nothing, and
\* leaves the store as it was.
C5_SimilarNotFound ==
    (call.op = "get_similar_compounds" /\ ObjectsOf(call.args.chembl_id) = {}) =>
        /\ call.outcome = "raised"
        /\ call.error = "ValueError"
        /\ \A q \in 1..Len(call.queries) : call.queries[q].kind # "near_vector"
        /\ call.result = NoResult
        /\ store = call.storeBefore

\* C5 witness: the call raised against a store that holds other compounds
C5_Witness ==
    /\ call.op = "get_similar_compounds"
    /\ call.outcome = "raised"
    /\ store # {}

MatchingPhase(min_phase) == { o \in store : o.properties["max_phase"] >= min_phase }

\* C8: filter_by_phase returns only stored objects with max_phase >= min_phase,
\* exactly min(limit, number of matching objects) of them, and leaves the store
\* as it was.
C8_FilterByPhase ==
    call.op = "filter_by_phase" =>
        /\ call.outcome = "returned"
        /\ \A k \in 1..Len(call.result) :
              /\ call.result[k]["max_phase"] >= call.args.min_phase
              /\ \E o \in store : o.properties = call.result[k]
        /\ IsInjective(call.result)
        /\ Len(call.result) =
              Min(call.args.limit, Cardinality(MatchingPhase(call.args.min_phase)))
        /\ store = call.storeBefore

\* C8 witness: three of four stored objects match, the limit is 2, two come back
C8_Witness ==
    /\ call.op = "filter_by_phase"
    /\ call.args.min_phase = 3
    /\ call.args.limit = 2
    /\ Cardinality(store) = 4
    /\ Cardinality(MatchingPhase(3)) = 3
    /\ Len(call.result) = 2

MatchingFilter(f) == { o \in store : WhereHolds(o, f) }

QueryDistance(o) == Distance(o.vector, Encode(call.args.query))

\* C9: semantic_search returns at most limit results, by non-increasing score,
\* each score 1 minus the object's distance to the query embedding; the results
\* are the limit nearest among the objects satisfying the filter (all objects
\* when there is none).
C9_SemanticSearch ==
    call.op = "semantic_search" =>
        LET ids == [k \in 1..Len(call.result) |-> call.result[k]["molecule_chembl_id"]]
            matching == MatchingFilter(call.args.filter)
        IN  /\ call.outcome = "returned"
            /\ Len(call.result) <= call.args.limit
            /\ \A a, b \in 1..Len(call.result) :
                  a < b => call.result[a]["certainty"] >= call.result[b]["certainty"]
            /\ IsInjective(ids)
            /\ \A k \in 1..Len(call.result) :
                  /\ ObjectsOf(ids[k]) # {}
                  /\ \A key \in DOMAIN StoredObject(ids[k]).properties :
                        call.result[k][key] = StoredObject(ids[k]).properties[key]
                  /\ call.result[k]["certainty"] = 1 - QueryDistance(StoredObject(ids[k]))
                  /\ StoredObject(ids[k]) \in matching
            /\ Len(call.result) = Min(call.args.limit, Cardinality(matching))
            /\ \A o \in matching :
                  o.properties["molecule_chembl_id"] \notin Range(ids) =>
                     \A k \in 1..Len(call.result) :
                        QueryDistance(o) >= QueryDistance(StoredObject(ids[k]))

\* C9 witness: a filtered search returns two results of different score while
\* an object that fails the filter is nearer to the query than both
C9_Witness ==
    /\ call.op = "semantic_search"
    /\ call.args.filter # NoFilter
    /\ Len(call.result) = 2
    /\ call.result[1]["certainty"] > call.result[2]["certainty"]
    /\ \E o \in store :
          /\ ~WhereHolds(o, call.args.filter)
          /\ 1 - QueryDistance(o) > call.result[1]["certainty"]

(***************************************************************************)
(* Properties of the description builder (SpecDesc)                        *)
(***************************************************************************)
ClinicalPhrases == { phase_desc[p] : p \in DOMAIN phase_desc }

\* C6: with max_phase present and in 0..4 the description ends with that
\* phase's phrase (0: "not tested in clinical trials", ..., 4: "approved for
\* clinical use"); without max_phase, or with a value outside 0..4, it carries
\* no phase phrase.
C6_PhasePhrase ==
    descDone =>
        IF "max_phase" \in DOMAIN descIn /\ descIn["max_phase"] \in 0..4
        THEN descOut[Len(descOut)] =
                (CASE descIn["max_phase"] = 0 -> "not tested in clinical trials"
                   [] descIn["max_phase"] = 1 -> "in Phase I clinical trials"
                   [] descIn["max_phase"] = 2 -> "in Phase II clinical trials"
                   [] descIn["max_phase"] = 3 -> "in Phase III clinical trials"
                   [] descIn["max_phase"] = 4 -> "approved for clinical use")
        ELSE Range(descOut) \cap ClinicalPhrases = {}

====
